---- MODULE Spec2Model ----
(***************************************************************************)
(* State-machine model of the bounded-concurrency probe-and-verify engine  *)
(* of EO-page-ips (src/scan_freecn.py; src/scan_ips.py is the same engine  *)
(* run on one hard-coded range).                                           *)
(*                                                                         *)
(* main reads a list of CIDR ranges, expands it to host addresses          *)
(* (parse_ranges), probes every address through an asyncio.Semaphore gate  *)
(* (scan_network / IPScanner.check_ip), sorts and saves the available      *)
(* addresses, and re-probes a sample of them in a thread pool              *)
(* (verify_redirects).                                                     *)
(***************************************************************************)
EXTENDS Integers, Sequences, FiniteSets, TLC

(***************************************************************************)
(* Bounds of the model.                                                    *)
(***************************************************************************)
\* longest list of CIDR ranges read from the range file
MaxRanges == 2
\* most addresses a range list may expand to
MaxAddrs == 3
\* largest CONCURRENCY value explored
MaxConcurrency == 2

(***************************************************************************)
(* Text.  A Python str is a sequence of one-character strings.             *)
(***************************************************************************)
Digits == <<"0", "1", "2", "3", "4", "5", "6", "7", "8", "9">>

DigitVal(c) == (CHOOSE k \in 1..10 : Digits[k] = c) - 1

RECURSIVE IntToStr(_)
\* str(n) of a non-negative int: decimal digits, no leading zeros
IntToStr(n) ==
    IF n < 10 THEN <<Digits[n + 1]>>
    ELSE IntToStr(n \div 10) \o <<Digits[(n % 10) + 1]>>

RECURSIVE StrToInt(_)
\* int(s) of a string of decimal digits
StrToInt(s) ==
    IF Len(s) = 0 THEN 0
    ELSE 10 * StrToInt(SubSeq(s, 1, Len(s) - 1)) + DigitVal(s[Len(s)])

RECURSIVE SplitDots(_)
\* s.split('.')
SplitDots(s) ==
    IF \A k \in 1..Len(s) : s[k] # "."
    THEN <<s>>
    ELSE LET d == CHOOSE k \in 1..Len(s) :
                      s[k] = "." /\ \A m \in 1..(k - 1) : s[m] # "."
         IN  <<SubSeq(s, 1, d - 1)>> \o SplitDots(SubSeq(s, d + 1, Len(s)))

RECURSIVE Pow2(_)
Pow2(n) == IF n = 0 THEN 1 ELSE 2 * Pow2(n - 1)

(***************************************************************************)
(* Address Source: ipaddress.ip_network(text).hosts() and str(ip).         *)
(* A range is [net |-> the 32-bit address before the slash,                *)
(*             prefix |-> the number after it].                            *)
(***************************************************************************)
\* 10.0.0.0 as a 32-bit integer
NetBase == 10 * 16777216

Cidr(off, p) == [net |-> NetBase + off, prefix |-> p]

\* the ranges a range file line may hold:
\*   10.0.0.2/31  -> 10.0.0.2, 10.0.0.3
\*   10.0.0.10/32 -> 10.0.0.10
\*   10.0.0.3/31  -> ValueError (host bits set)
RangePool == {Cidr(2, 31), Cidr(10, 32), Cidr(3, 31)}

\* ip_network(text) with strict=True returns instead of raising ValueError
ValidNetwork(r) ==
    /\ r.prefix \in 0..32
    /\ r.net % Pow2(32 - r.prefix) = 0

\* network.hosts(): network and broadcast address excluded, except /31, /32
Hosts(r) ==
    LET size == Pow2(32 - r.prefix) IN
    IF r.prefix = 32 THEN <<r.net>>
    ELSE IF r.prefix = 31 THEN <<r.net, r.net + 1>>
    ELSE [k \in 1..(size - 2) |-> r.net + k]

\* str(IPv4Address(a)): the four octets in decimal joined by dots
IpStr(a) ==
    IntToStr((a \div 16777216) % 256) \o <<".">> \o
    IntToStr((a \div 65536) % 256) \o <<".">> \o
    IntToStr((a \div 256) % 256) \o <<".">> \o
    IntToStr(a % 256)

\* [str(ip) for ip in network.hosts()]
HostStrs(r) == [k \in 1..Len(Hosts(r)) |-> IpStr(Hosts(r)[k])]

RECURSIVE parse_ranges_strict(_)
\* parse_ranges that does not catch ValueError: loading ends at the first
\* malformed range
parse_ranges_strict(rs) ==
    IF Len(rs) = 0 THEN <<>>
    ELSE IF ValidNetwork(Head(rs))
         THEN HostStrs(Head(rs)) \o parse_ranges_strict(Tail(rs))
         ELSE <<>>

RECURSIVE parse_ranges(_)
\* all_ips: every well-formed range expanded in input order, malformed skipped
parse_ranges(rs) ==
    IF Len(rs) = 0 THEN <<>>
    ELSE (IF ValidNetwork(Head(rs)) THEN HostStrs(Head(rs)) ELSE <<>>)
         \o parse_ranges(Tail(rs))

(***************************************************************************)
(* Result Aggregator: available_ips.sort(key=lambda ip:                    *)
(*                        [int(part) for part in ip.split('.')])           *)
(***************************************************************************)
\* the sort key: the dotted-decimal components as a list of ints
SortKey(ip) ==
    LET parts == SplitDots(ip) IN [k \in 1..Len(parts) |-> StrToInt(parts[k])]

\* Python's list comparison a < b: first differing element decides, then length
ListLess(a, b) ==
    \/ \E k \in 1..Len(a) :
          /\ k <= Len(b)
          /\ a[k] < b[k]
          /\ \A m \in 1..(k - 1) : a[m] = b[m]
    \/ /\ Len(a) < Len(b)
       /\ \A m \in 1..Len(a) : a[m] = b[m]

\* ord(c) of the characters of an address
CharCode(c) == IF c = "." THEN 46 ELSE 48 + DigitVal(c)

\* (variant: the addresses compared as text, as a sort without key= does)
KeyLessText(x, y) ==
    ListLess([k \in 1..Len(x) |-> CharCode(x[k])], [k \in 1..Len(y) |-> CharCode(y[k])])

\* whether ip x must be placed before ip y
KeyLess(x, y) == ListLess(SortKey(x), SortKey(y))

\* x placed into the sorted list s behind every element that is not greater
InsertSorted(s, x) ==
    LET after == {k \in 1..Len(s) : KeyLess(x, s[k])}
        pos == IF after = {} THEN Len(s) + 1
               ELSE CHOOSE k \in after : \A m \in after : k <= m
    IN  SubSeq(s, 1, pos - 1) \o <<x>> \o SubSeq(s, pos, Len(s))

RECURSIVE SortIps(_)
\* list.sort(key=...): a stable sort by KeyLess
SortIps(s) ==
    IF Len(s) = 0 THEN <<>>
    ELSE InsertSorted(SortIps(SubSeq(s, 1, Len(s) - 1)), s[Len(s)])

(***************************************************************************)
(* Probe Client: what one HTTP request can come back with, and the         *)
(* classification of check_ip and of verify_single.                        *)
(***************************************************************************)
\* 'https://www.gov.cn/' (scan_ips.py: 'https://edgeone.ai/products/pages')
TargetUrl == "https://www.gov.cn/"

NoHeaders == [h \in {} |-> ""]

LocationHeader(v) == [h \in {"Location"} |-> v]

Response(st, hd) == [exc |-> "none", status |-> st, headers |-> hd]

Raised(e) == [exc |-> e, status |-> 0, headers |-> NoHeaders]

\* the responses a probed host may give
Responses ==
    {Response(st, hd) :
        st \in {200, 301, 302},
        hd \in {NoHeaders, LocationHeader(TargetUrl),
                LocationHeader("https://www.gov.cn"),
                LocationHeader("http://www.gov.cn/")}}

\* the exceptions client.get / requests.get may raise
Exceptions == {"TimeoutException", "ConnectError", "NetworkError", "Exception"}

\* every way one request may end
Outcomes == Responses \cup {Raised(e) : e \in Exceptions}

\* the classes named by check_ip's except clause
ExceptClause == {"TimeoutException", "ConnectError", "NetworkError", "Exception"}

\* (variant: the clause without its last class)
CatchesListed(e) == e \in ExceptClause \ {"Exception"}

\* whether the except clause catches e: every exception here is an Exception
Catches(e) == e \in ExceptClause \/ "Exception" \in ExceptClause

\* (variant: any 302 with a Location header counts)
ClassifyAnyRedirect(o) ==
    IF o.status = 302 /\ "Location" \in DOMAIN o.headers
    THEN "available"
    ELSE "unreachable"

\* the status for a response that arrived
Classify(o) ==
    IF /\ o.status = 302
       /\ "Location" \in DOMAIN o.headers
       /\ o.headers["Location"] = TargetUrl
    THEN "available"
    ELSE "unreachable"

\* how check_ip ends: the status it returns, or "error" when an exception
\* leaves it
check_ip(o) ==
    IF o.exc = "none" THEN Classify(o)
    ELSE IF Catches(o.exc) THEN "unreachable"
    ELSE "error"

\* (variant: the permit is given back only when check_ip returns a response's
\* status)
ReleaseOnReturn(s, o) == IF o.exc = "none" THEN s + 1 ELSE s

\* semaphore._value after the async with block is left with outcome o
ReleaseOnExit(s, o) == s + 1

\* the is_valid flag verify_single returns
\* verify_single that confirms on every 302 carrying a Location header
verify_single_any_redirect(o) ==
    IF o.exc # "none" THEN FALSE
    ELSE o.status = 302 /\ "Location" \in DOMAIN o.headers

verify_single(o) ==
    IF o.exc # "none" THEN FALSE
    ELSE IF o.status = 302 /\ "Location" \in DOMAIN o.headers
         THEN o.headers["Location"] = TargetUrl
         ELSE FALSE

(***************************************************************************)
(* Program constants.                                                      *)
(***************************************************************************)
\* ProgressReporter.update reports when this many seconds have passed
ReportInterval == 60
\* main verifies the first VerifySample available addresses
VerifySample == 10
\* verify_redirects(..., max_workers: int = 10)
MaxWorkers == 10

\* seconds between two values the clock can show
TickSeconds == 30
\* the clock of one scan is followed for this many seconds
MaxSeconds == 120

\* save_results' default filename, the primary output
PrimaryFile == "available_eofreecn_ips.txt"

\* (variant: the verified list saved under the default filename)
VerifiedFileDefault == "available_eofreecn_ips.txt"

\* the file main saves verified_ips to
VerifiedFile == "verified_ips.txt"

(***************************************************************************)
(* State.                                                                  *)
(***************************************************************************)
VARIABLES
    ranges,           \* read_ranges_from_file(): the lines of the range file
    concurrency,      \* int(os.getenv('CONCURRENCY', '300'))
    mainPc,           \* where main is
    all_ips,          \* main: all_ips = parse_ranges(ranges)
    sem,              \* scan_network: semaphore._value, the free permits
    probe,            \* task k of tasks: "pending", "inflight", "done", "consumed"
    verdict,          \* task k's returned status, "none" until it returns
    raised,           \* the tasks whose client.get raised
    doneQ,            \* as_completed's queue of finished tasks, oldest first
    availOrder,       \* the tasks whose probe returned "available", in the
                      \* order in which their probes completed
    completed_count,  \* scan_network: completed_count
    available_ips,    \* scan_network: available_ips, then main's list
    reporter,         \* scan_network: the ProgressReporter's fields
    now,              \* the last time.time() read, in seconds since the scan began
    reports,          \* the progress reports this scan has printed, oldest first
    files,            \* the files written by save_results
    vtask,            \* verify_redirects: future j of future_to_ip
    verified_ips,     \* verify_redirects: verified_ips
    request,          \* classification harness: the request outcomes given
    classified        \* classification harness: the results returned

vars == <<ranges, concurrency, mainPc, all_ips, sem, probe, verdict, raised,
          doneQ, availOrder, completed_count, available_ips, reporter, now,
          reports, files,
          vtask, verified_ips, request, classified>>

inputVars == <<ranges, concurrency>>

scanVars == <<sem, probe, verdict, raised, doneQ, availOrder, completed_count,
              reporter, now, reports>>

verifyVars == <<vtask, verified_ips>>

harnessVars == <<request, classified>>

Tasks == 1..Len(probe)

\* number of probes inside the gate
Holders == Cardinality({k \in Tasks : probe[k] = "inflight"})

RECURSIVE SeqsUpTo(_, _)
\* the sequences over S of length at most n
SeqsUpTo(S, n) ==
    IF n = 0 THEN {<<>>}
    ELSE LET shorter == SeqsUpTo(S, n - 1)
         IN  shorter \cup {Append(q, x) : q \in {t \in shorter : Len(t) = n - 1}, x \in S}

\* the range files explored
RangeLists == {rs \in SeqsUpTo(RangePool, MaxRanges) : Len(parse_ranges(rs)) <= MaxAddrs}

\* the CONCURRENCY values explored; Semaphore(-1) raises ValueError
ConcurrencyValues == (0 - 1)..MaxConcurrency

\* no ProgressReporter exists.  own_list tells whether self.available_ips is
\* a list object of the reporter's own, not the list of the coordinator
NoReporter ==
    [total_ips |-> 0, start_time |-> 0, last_report_time |-> 0,
     last_completed |-> 0, completed |-> 0, available_ips |-> <<>>,
     own_list |-> TRUE]

\* no classification requested
NoRequest == [probe |-> Response(0, NoHeaders), verify |-> Response(0, NoHeaders)]

\* no classification returned: each result is a list of at most one value
NoResult == [probe |-> <<>>, verify |-> <<>>]

\* the state of main's frame before scan_network is called
Idle ==
    /\ sem = 0
    /\ probe = <<>>
    /\ verdict = <<>>
    /\ raised = {}
    /\ doneQ = <<>>
    /\ availOrder = <<>>
    /\ completed_count = 0
    /\ reporter = NoReporter
    /\ now = 0
    /\ reports = <<>>

Init ==
    /\ ranges \in RangeLists
    /\ concurrency \in ConcurrencyValues
    /\ mainPc = "start"
    /\ all_ips = <<>>
    /\ available_ips = <<>>
    /\ Idle
    /\ files = [f \in {} |-> <<>>]
    /\ vtask = <<>>
    /\ verified_ips = <<>>
    /\ request = NoRequest
    /\ classified = NoResult

(***************************************************************************)
(* Progress Reporter.                                                      *)
(***************************************************************************)
\* ProgressReporter(total_ips) made at time t
NewReporter(total, t) ==
    [total_ips |-> total, start_time |-> t, last_report_time |-> t,
     last_completed |-> 0, completed |-> 0, available_ips |-> <<>>,
     own_list |-> TRUE]

\* whether update reports at time t
ReportDue(rep, t) == t - rep.last_report_time >= ReportInterval

\* an update that stores the count and keeps the snapshot it had
SeenCountOnly(rep, completed, ips) == [rep EXCEPT !.completed = completed]

\* an update that stores the coordinator's list itself, not a copy of it
SeenShared(rep, completed, ips) ==
    [rep EXCEPT !.completed = completed, !.available_ips = ips,
                !.own_list = FALSE]

\* the first two statements of update; available_ips.copy() is a new list
\* object
Seen(rep, completed, ips) ==
    [rep EXCEPT !.completed = completed, !.available_ips = ips,
                !.own_list = TRUE]

\* an update that moves last_report_time and leaves last_completed behind
update_time_only(rep, completed, ips, t) ==
    IF ReportDue(Seen(rep, completed, ips), t)
    THEN [Seen(rep, completed, ips) EXCEPT !.last_report_time = t]
    ELSE Seen(rep, completed, ips)

\* reporter.update(completed, available_ips) at time t
update(rep, completed, ips, t) ==
    IF ReportDue(Seen(rep, completed, ips), t)
    THEN [Seen(rep, completed, ips) EXCEPT !.last_report_time = t,
                                           !.last_completed = completed]
    ELSE Seen(rep, completed, ips)

\* _report_progress raises ZeroDivisionError at completed/total_ips
ReportRaises(rep) == rep.total_ips = 0

\* A float is modelled by the exact fraction num/den; den = 0 stands for a
\* division by zero.
Frac(n, d) == [num |-> n, den |-> d]

\* a / b
Quot(a, b) == Frac(a.num * b.den, a.den * b.num)

\* a > 0, for a fraction with den >= 0
Positive(a) == a.num > 0 /\ a.den > 0

\* max(a, 1), for a fraction with den > 0
AtLeastOne(a) == IF a.num >= a.den THEN a ELSE Frac(1, 1)

\* elapsed_minutes, total_elapsed: seconds / 60
Minutes(seconds) == Frac(seconds, 60)

\* recent_speed, avg_speed: count / minutes if minutes > 0 else 0
Speed(count, minutes) ==
    IF Positive(minutes) THEN Quot(Frac(count, 1), minutes) ELSE Frac(0, 1)

\* eta_minutes = remaining_ips / avg_speed, whatever avg_speed is
EtaUnguarded(remaining, avg_speed) == Quot(Frac(remaining, 1), avg_speed)

\* eta_minutes = remaining_ips / max(avg_speed, 1) if avg_speed > 0 else 0
Eta(remaining, avg_speed) ==
    IF Positive(avg_speed)
    THEN Quot(Frac(remaining, 1), AtLeastOne(avg_speed))
    ELSE Frac(0, 1)

\* what _report_progress(current_time = t) prints; final tells whether
\* final_report called it
Report(rep, t, final) ==
    LET recent_completed == rep.completed - rep.last_completed
        avg_speed == Speed(rep.completed, Minutes(t - rep.start_time))
        eta_minutes == Eta(rep.total_ips - rep.completed, avg_speed)
    IN  [final |-> final,
         at |-> t,
         since |-> t - rep.last_report_time,
         completed |-> rep.completed,
         total |-> rep.total_ips,
         available |-> Len(rep.available_ips),
         unreachable |-> rep.completed - Len(rep.available_ips),
         recent_completed |-> recent_completed,
         recent_speed |-> Speed(recent_completed, Minutes(t - rep.last_report_time)),
         avg_speed |-> avg_speed,
         eta |-> eta_minutes,
         eta_shown |-> Positive(eta_minutes)]

\* a final_report that keeps to the cadence of update
final_report_when_due(log, rep, t) ==
    IF ReportDue(rep, t) THEN Append(log, Report(rep, t, TRUE)) ELSE log

\* the reports printed once final_report has run at time t
final_report(log, rep, t) == Append(log, Report(rep, t, TRUE))

\* the reports printed once update(completed, available_ips) has run at time t
Reported(log, rep, completed, ips, t) ==
    IF ReportDue(Seen(rep, completed, ips), t)
    THEN Append(log, Report(Seen(rep, completed, ips), t, FALSE))
    ELSE log

(***************************************************************************)
(* main up to the scan.                                                    *)
(***************************************************************************)
\* main: read and parse the ranges; sys.exit(1) when nothing is to be scanned
ParseRanges ==
    /\ mainPc = "start"
    /\ all_ips' = parse_ranges(ranges)
    /\ mainPc' = IF Len(ranges) = 0 \/ Len(parse_ranges(ranges)) = 0
                 THEN "exit" ELSE "parsed"
    /\ UNCHANGED <<inputVars, scanVars, available_ips, files, verifyVars, harnessVars>>

\* whether asyncio.Semaphore(value) raises ValueError
SemaphoreRaises(value) == value < 0

\* (variant: every entry is scheduled twice)
NewTasksTwice(ips) == [k \in 1..(2 * Len(ips)) |-> "pending"]

\* tasks = [scanner.check_ip(ip, semaphore) for ip in ips]: one task per entry
NewTasks(ips) == [k \in 1..Len(ips) |-> "pending"]

\* scan_network up to the loop: the semaphore, the reporter, one task per ip
ScanStart ==
    /\ mainPc = "parsed"
    /\ IF SemaphoreRaises(concurrency)
       THEN /\ mainPc' = "error"
            /\ UNCHANGED scanVars
       ELSE /\ mainPc' = "scanning"
            /\ sem' = concurrency
            /\ reporter' = NewReporter(Len(all_ips), now)
            /\ probe' = NewTasks(all_ips)
            /\ verdict' = [k \in DOMAIN NewTasks(all_ips) |-> "none"]
            /\ UNCHANGED <<raised, doneQ, availOrder, completed_count, now, reports>>
    /\ available_ips' = <<>>
    /\ UNCHANGED <<inputVars, all_ips, files, verifyVars, harnessVars>>

(***************************************************************************)
(* The probes: IPScanner.check_ip.                                         *)
(***************************************************************************)
\* (variant: no gate)
CanAcquireAlways == TRUE

\* whether semaphore.acquire() returns at once
CanAcquire == sem > 0

\* async with semaphore: task k passes the gate
Acquire(k) ==
    /\ mainPc = "scanning"
    /\ probe[k] = "pending"
    /\ CanAcquire
    /\ sem' = sem - 1
    /\ probe' = [probe EXCEPT ![k] = "inflight"]
    /\ UNCHANGED <<inputVars, mainPc, all_ips, verdict, raised, doneQ, availOrder,
                   completed_count, available_ips, reporter, now, reports, files,
                   verifyVars, harnessVars>>

\* client.get ends with outcome o; check_ip classifies it, leaves the gate and
\* returns; as_completed queues the finished task
ProbeFinish(k, o) ==
    /\ mainPc = "scanning"
    /\ probe[k] = "inflight"
    /\ verdict' = [verdict EXCEPT ![k] = check_ip(o)]
    /\ raised' = IF o.exc = "none" THEN raised ELSE raised \cup {k}
    /\ sem' = ReleaseOnExit(sem, o)
    /\ probe' = [probe EXCEPT ![k] = "done"]
    /\ doneQ' = Append(doneQ, k)
    /\ availOrder' = IF check_ip(o) = "available" THEN Append(availOrder, k)
                     ELSE availOrder
    /\ UNCHANGED <<inputVars, mainPc, all_ips, completed_count, available_ips,
                   reporter, now, reports, files, verifyVars, harnessVars>>

(***************************************************************************)
(* Scan Coordinator: the as_completed loop of scan_network.                *)
(***************************************************************************)
\* (variant: counts a verdict twice)
CountedTwice(n) == n + 2

\* completed_count after one more verdict
Counted(n) == n + 1

\* a fold that puts the address of an available verdict in front
FoldedFront(ips, ip, status) == IF status = "available" THEN <<ip>> \o ips ELSE ips

\* available_ips after the verdict of ip
Folded(ips, ip, status) == IF status = "available" THEN Append(ips, ip) ELSE ips

\* what time.time() may return after it returned t
ClockReadings(t) ==
    {t + d * TickSeconds : d \in 0..((MaxSeconds - t) \div TickSeconds)}

\* one pass of the loop body for the oldest finished task; update reads the
\* clock as t
Consume(t) ==
    /\ mainPc = "scanning"
    /\ Len(doneQ) > 0
    /\ LET k == Head(doneQ) IN
       IF verdict[k] = "error"
       THEN \* await coro raises: scan_network is left by the exception
            /\ mainPc' = "error"
            /\ t = now
            /\ UNCHANGED <<scanVars, available_ips>>
       ELSE /\ completed_count' = Counted(completed_count)
            /\ available_ips' = Folded(available_ips, all_ips[k], verdict[k])
            /\ reporter' = update(reporter, Counted(completed_count),
                                  Folded(available_ips, all_ips[k], verdict[k]), t)
            /\ reports' = Reported(reports, reporter, Counted(completed_count),
                                   Folded(available_ips, all_ips[k], verdict[k]), t)
            /\ doneQ' = Tail(doneQ)
            /\ probe' = [probe EXCEPT ![k] = "consumed"]
            /\ mainPc' = mainPc
            /\ now' = t
            /\ UNCHANGED <<sem, verdict, raised, availOrder>>
    /\ UNCHANGED <<inputVars, all_ips, files, verifyVars, harnessVars>>

\* the loop has run once per task: final_report, which reads the clock as t,
\* and return
ScanReturn(t) ==
    /\ mainPc = "scanning"
    /\ completed_count = Len(probe)
    /\ mainPc' = IF ReportRaises(reporter) THEN "error" ELSE "scanned"
    /\ reports' = IF ReportRaises(reporter) THEN reports
                   ELSE final_report(reports, reporter, t)
    /\ now' = t
    /\ UNCHANGED <<inputVars, all_ips, sem, probe, verdict, raised, doneQ, availOrder,
                   completed_count, reporter, available_ips, files, verifyVars,
                   harnessVars>>

(***************************************************************************)
(* main after the scan: sort, save, verify a sample, save.                 *)
(***************************************************************************)
\* save_results(ips, filename)
save_results(fs, ips, filename) ==
    [f \in DOMAIN fs \cup {filename} |-> IF f = filename THEN ips ELSE fs[f]]

\* scan_network's frame is gone
FrameDropped ==
    /\ sem' = 0
    /\ probe' = <<>>
    /\ verdict' = <<>>
    /\ raised' = {}
    /\ doneQ' = <<>>
    /\ availOrder' = <<>>
    /\ completed_count' = 0
    /\ reporter' = NoReporter
    /\ now' = 0
    /\ reports' = <<>>

\* main: available_ips.sort(key=...); save_results(available_ips)
SortAndSave ==
    /\ mainPc = "scanned"
    /\ available_ips' = SortIps(available_ips)
    /\ files' = save_results(files, SortIps(available_ips), PrimaryFile)
    /\ FrameDropped
    /\ mainPc' = "saved"
    /\ UNCHANGED <<inputVars, all_ips, verifyVars, harnessVars>>

Min(a, b) == IF a <= b THEN a ELSE b

\* a sample that is the whole list
SampleAll(ips) == ips

\* available_ips[:verify_count], verify_count = min(10, len(available_ips))
Sample(ips) == SubSeq(ips, 1, Min(VerifySample, Len(ips)))

\* main: if available_ips, verify_redirects submits one verify_single per
\* sampled ip; otherwise the statistics are printed and main ends
VerifyStart ==
    /\ mainPc = "saved"
    /\ IF Len(available_ips) = 0
       THEN /\ mainPc' = "done"
            /\ UNCHANGED verifyVars
       ELSE /\ mainPc' = "verifying"
            /\ vtask' = [j \in 1..Len(Sample(available_ips)) |->
                            [ip |-> Sample(available_ips)[j], st |-> "queued",
                             valid |-> FALSE]]
            /\ verified_ips' = <<>>
    /\ UNCHANGED <<inputVars, all_ips, scanVars, available_ips, files, harnessVars>>

\* number of verify_single calls running in the pool's threads
Running == Cardinality({j \in DOMAIN vtask : vtask[j].st = "running"})

\* a pool thread takes the oldest queued call
VerifyBegin(j) ==
    /\ mainPc = "verifying"
    /\ vtask[j].st = "queued"
    /\ \A i \in 1..(j - 1) : vtask[i].st # "queued"
    /\ Running < MaxWorkers
    /\ vtask' = [vtask EXCEPT ![j].st = "running"]
    /\ UNCHANGED <<inputVars, mainPc, all_ips, scanVars, available_ips, files,
                   verified_ips, harnessVars>>

\* requests.get ends with outcome o and verify_single returns
VerifyEnd(j, o) ==
    /\ mainPc = "verifying"
    /\ vtask[j].st = "running"
    /\ vtask' = [vtask EXCEPT ![j].st = "finished", ![j].valid = verify_single(o)]
    /\ UNCHANGED <<inputVars, mainPc, all_ips, scanVars, available_ips, files,
                   verified_ips, harnessVars>>

\* verified_ips after future.result() gave (ip, is_valid)
Verified(ips, ip, is_valid) == IF is_valid THEN Append(ips, ip) ELSE ips

\* the as_completed loop of verify_redirects takes a finished future
VerifyCollect(j) ==
    /\ mainPc = "verifying"
    /\ vtask[j].st = "finished"
    /\ verified_ips' = Verified(verified_ips, vtask[j].ip, vtask[j].valid)
    /\ vtask' = [vtask EXCEPT ![j].st = "collected"]
    /\ UNCHANGED <<inputVars, mainPc, all_ips, scanVars, available_ips, files,
                   harnessVars>>

\* verify_redirects returns; main saves verified_ips and prints the statistics
VerifyReturn ==
    /\ mainPc = "verifying"
    /\ \A j \in DOMAIN vtask : vtask[j].st = "collected"
    /\ files' = save_results(files, verified_ips, VerifiedFile)
    /\ vtask' = <<>>
    /\ mainPc' = "done"
    /\ UNCHANGED <<inputVars, all_ips, scanVars, available_ips, verified_ips,
                   harnessVars>>

(***************************************************************************)
(* The engine.                                                             *)
(***************************************************************************)
Next ==
    \/ ParseRanges
    \/ ScanStart
    \/ \E k \in Tasks : Acquire(k)
    \/ \E k \in Tasks, o \in Outcomes : ProbeFinish(k, o)
    \/ \E t \in ClockReadings(now) : Consume(t)
    \/ \E t \in ClockReadings(now) : ScanReturn(t)
    \/ SortAndSave
    \/ VerifyStart
    \/ \E j \in DOMAIN vtask : VerifyBegin(j)
    \/ \E j \in DOMAIN vtask, o \in Outcomes : VerifyEnd(j, o)
    \/ \E j \in DOMAIN vtask : VerifyCollect(j)
    \/ VerifyReturn

Spec == Init /\ [][Next]_vars

(***************************************************************************)
(* The classification alone: check_ip and verify_single applied to every   *)
(* pair of request outcomes.                                               *)
(***************************************************************************)
InitClassify ==
    /\ ranges = <<>>
    /\ concurrency = 0
    /\ mainPc = "classify"
    /\ all_ips = <<>>
    /\ available_ips = <<>>
    /\ Idle
    /\ files = [f \in {} |-> <<>>]
    /\ vtask = <<>>
    /\ verified_ips = <<>>
    /\ request \in [probe : Outcomes, verify : Outcomes]
    /\ classified = NoResult

\* check_ip's request ends with request.probe
ClassifyProbe ==
    /\ mainPc = "classify"
    /\ classified.probe = <<>>
    /\ classified' = [classified EXCEPT !.probe = <<check_ip(request.probe)>>]
    /\ UNCHANGED <<inputVars, mainPc, all_ips, scanVars, available_ips, files,
                   verifyVars, request>>

\* verify_single's request ends with request.verify
ClassifyVerify ==
    /\ mainPc = "classify"
    /\ classified.verify = <<>>
    /\ classified' = [classified EXCEPT !.verify = <<verify_single(request.verify)>>]
    /\ UNCHANGED <<inputVars, mainPc, all_ips, scanVars, available_ips, files,
                   verifyVars, request>>

NextClassify == ClassifyProbe \/ ClassifyVerify

ClassifySpec == InitClassify /\ [][NextClassify]_vars

(***************************************************************************)
(* The verification pass of main on its own, for available lists longer    *)
(* than the sample: main has scanned one /28 range, the first n of its 14   *)
(* addresses were available, and the sorted list has been saved.            *)
(***************************************************************************)
\* most available addresses explored
MaxAvailable == 11

\* 10.0.0.16/28 -> 10.0.0.17 .. 10.0.0.30
VerifyRange == Cidr(16, 28)

InitVerify ==
    /\ ranges = <<VerifyRange>>
    /\ concurrency = MaxConcurrency
    /\ mainPc = "saved"
    /\ all_ips = parse_ranges(ranges)
    /\ available_ips \in {SubSeq(all_ips, 1, n) : n \in 0..MaxAvailable}
    /\ Idle
    /\ files = save_results([f \in {} |-> <<>>], available_ips, PrimaryFile)
    /\ vtask = <<>>
    /\ verified_ips = <<>>
    /\ request = NoRequest
    /\ classified = NoResult

\* the ways the re-probe of sampled address j may end: the first address
\* may still redirect to the target, the others time out
ReprobeOutcomes(j) ==
    IF j = 1
    THEN {Response(302, LocationHeader(TargetUrl)), Raised("TimeoutException")}
    ELSE {Raised("TimeoutException")}

NextVerify ==
    \/ VerifyStart
    \/ \E j \in DOMAIN vtask : VerifyBegin(j)
    \/ \E j \in DOMAIN vtask : \E o \in ReprobeOutcomes(j) : VerifyEnd(j, o)
    \/ \E j \in DOMAIN vtask : VerifyCollect(j)
    \/ VerifyReturn

VerifySpec == InitVerify /\ [][NextVerify]_vars

(***************************************************************************)
(* scan_network on its own: a caller hands it the list parse_ranges         *)
(* returned, the empty list included, with a CONCURRENCY of at least 1.     *)
(***************************************************************************)
InitScan ==
    /\ ranges \in RangeLists
    /\ concurrency \in 1..MaxConcurrency
    /\ mainPc = "parsed"
    /\ all_ips = parse_ranges(ranges)
    /\ available_ips = <<>>
    /\ Idle
    /\ files = [f \in {} |-> <<>>]
    /\ vtask = <<>>
    /\ verified_ips = <<>>
    /\ request = NoRequest
    /\ classified = NoResult

NextScan ==
    \/ ScanStart
    \/ \E k \in Tasks : Acquire(k)
    \/ \E k \in Tasks, o \in Outcomes : ProbeFinish(k, o)
    \/ \E t \in ClockReadings(now) : Consume(t)
    \/ \E t \in ClockReadings(now) : ScanReturn(t)

ScanSpec == InitScan /\ [][NextScan]_vars

(***************************************************************************)
(* Properties.                                                             *)
(***************************************************************************)
Scanning == mainPc = "scanning"

\* scan_network is running or at its return statement
InScan == mainPc \in {"scanning", "scanned"}

\* a step of the scan itself
ScanStep ==
    \/ \E k \in Tasks : Acquire(k)
    \/ \E k \in Tasks, o \in Outcomes : ProbeFinish(k, o)
    \/ \E t \in ClockReadings(now) : Consume(t)
    \/ \E t \in ClockReadings(now) : ScanReturn(t)

\* C1: while scan_network runs, the probes inside the gate are never more
\* than the semaphore's capacity, however many probes were scheduled; and
\* while the gate is full no pending probe is admitted.
C1_GateBounded ==
    /\ [](InScan => Holders <= concurrency)
    /\ [][(Scanning /\ Holders = concurrency)
            => \A k \in Tasks : probe[k] = "pending" => probe'[k] = "pending"]_vars

\* C1 witness: more probes than permits, the gate full and a probe waiting
C1_Witness ==
    /\ Scanning
    /\ concurrency >= 1
    /\ Len(probe) > concurrency
    /\ Holders = concurrency
    /\ \E k \in Tasks : probe[k] = "pending"

\* C2: no permit leaks: the permits held by probes plus the free permits are
\* the capacity, whatever way the finished probes ended, and once every probe
\* has finished all permits are free.
C2_NoPermitLeak ==
    InScan =>
        /\ Holders + sem = concurrency
        /\ (\A k \in Tasks : probe[k] \in {"done", "consumed"}) => sem = concurrency

\* C2 witness: all probes finished, one by an exception, one with an available
\* and one with an unreachable response, and the gate is whole
C2_Witness ==
    /\ InScan
    /\ \A k \in Tasks : probe[k] \in {"done", "consumed"}
    /\ raised # {}
    /\ \E k \in Tasks : verdict[k] = "available"
    /\ \E k \in Tasks \ raised : verdict[k] = "unreachable"
    /\ sem = concurrency
    /\ concurrency >= 1

\* C3 (as claimed): the scan never deadlocks: while scan_network runs, some
\* step of the scan is always possible
C3_NeverStuck == Scanning => ENABLED ScanStep

\* C4: check_ip answers "available" exactly for a response with status 302
\* whose Location header is present and equal to the target URL; every other
\* response yields "unreachable".
C4_ClassificationRule ==
    classified.probe # <<>> =>
        LET o == request.probe
            matches == /\ o.exc = "none"
                       /\ o.status = 302
                       /\ \E h \in DOMAIN o.headers :
                             h = "Location" /\ o.headers[h] = "https://www.gov.cn/"
        IN  /\ matches => classified.probe = <<"available">>
            /\ (o.exc = "none" /\ ~matches) => classified.probe = <<"unreachable">>

\* C4 witness: a 302 whose Location differs from the target was classified
C4_Witness ==
    /\ classified.probe = <<"unreachable">>
    /\ request.probe.exc = "none"
    /\ request.probe.status = 302
    /\ "Location" \in DOMAIN request.probe.headers

\* C5: a probe that ends in an exception yields "unreachable" and never ends
\* the scan: the scan goes on after it, main reaches its error handler only
\* through the semaphore's ValueError, and scan_network returns with every
\* address probed and counted, however many probes failed.
C5_FailuresAbsorbed ==
    /\ \A k \in raised : verdict[k] = "unreachable"
    /\ (Scanning /\ raised # {}) => ENABLED ScanStep
    /\ mainPc = "error" => concurrency < 0
    /\ mainPc = "scanned" =>
          /\ completed_count = Len(all_ips)
          /\ \A k \in Tasks : probe[k] = "consumed"

\* C5 witness: scan_network returns after every probe failed
C5_Witness ==
    /\ mainPc = "scanned"
    /\ Len(all_ips) >= 2
    /\ raised = Tasks
    /\ completed_count = Len(all_ips)

\* C6: completed_count never exceeds the number of addresses, grows by exactly
\* one with each consumed verdict and not otherwise, and equals the number of
\* addresses when scan_network returns.
C6_CompletedCount ==
    /\ [](InScan => completed_count <= Len(all_ips))
    /\ [](mainPc = "scanned" => completed_count = Len(all_ips))
    /\ [][(Scanning /\ InScan')
            => IF Len(doneQ') < Len(doneQ)
               THEN completed_count' = completed_count + 1
               ELSE completed_count' = completed_count]_vars

\* C6 witness: scan_network returns having counted three addresses
C6_Witness ==
    /\ mainPc = "scanned"
    /\ completed_count = 3

\* where a task may be after one step
Forward(st) ==
    CASE st = "pending" -> {"pending", "inflight"}
      [] st = "inflight" -> {"inflight", "done"}
      [] st = "done" -> {"done", "consumed"}
      [] OTHER -> {"consumed"}

Count(s, x) == Cardinality({k \in 1..Len(s) : s[k] = x})

\* C8 (as claimed): when scan_network returns, available_ips holds exactly the
\* addresses whose probe returned "available", and no address twice
C8_AvailableExactOnce ==
    mainPc = "scanned" =>
        /\ \A k \in Tasks : verdict[k] = "available" => Count(available_ips, all_ips[k]) >= 1
        /\ \A q \in 1..Len(available_ips) :
              \E k \in Tasks : all_ips[k] = available_ips[q] /\ verdict[k] = "available"
        /\ \A q \in 1..Len(available_ips) : Count(available_ips, available_ips[q]) = 1

\* the addresses the range pool can produce
PoolAddrs == UNION {{Hosts(r)[k] : k \in 1..Len(Hosts(r))} : r \in {p \in RangePool : ValidNetwork(p)}}

\* the 32-bit address an address string was formatted from
AddrOf(ip) == CHOOSE a \in PoolAddrs : IpStr(a) = ip

\* s holds the same addresses as t, each as often
SameEntries(s, t) ==
    /\ Len(s) = Len(t)
    /\ \A k \in 1..Len(t) : Count(s, t[k]) = Count(t, t[k])

\* s is in numeric order of its addresses
NumericOrder(s) ==
    \A i, j \in 1..Len(s) : i < j => AddrOf(s[i]) <= AddrOf(s[j])

AfterSort == mainPc \in {"saved", "verifying", "done"}

\* C9: main's sort turns the completion-order available_ips into a list with
\* the same entries, none added and none removed, in numeric order of the
\* addresses (10.0.0.2 before 10.0.0.10), whatever the completion order was,
\* and the list stays in that order.
C9_SortedPermutation ==
    /\ [][(mainPc = "scanned" /\ mainPc' = "saved")
            => /\ SameEntries(available_ips', available_ips)
               /\ NumericOrder(available_ips')]_vars
    /\ [](AfterSort => NumericOrder(available_ips))

\* C9 witness: the sorted list with 10.0.0.2 before 10.0.0.10
C9_Witness ==
    /\ mainPc = "saved"
    /\ Len(available_ips) >= 2
    /\ available_ips[1] = IpStr(NetBase + 2)
    /\ available_ips[Len(available_ips)] = IpStr(NetBase + 10)

\* C10: from the moment the primary output is saved, verification changes
\* neither main's available_ips nor the saved primary file, and an address
\* whose re-probe failed is still in both.
C10_VerificationAdvisory ==
    /\ [][AfterSort
            => /\ available_ips' = available_ips
               /\ PrimaryFile \in DOMAIN files'
               /\ files'[PrimaryFile] = files[PrimaryFile]]_vars
    /\ [](AfterSort =>
            /\ files[PrimaryFile] = available_ips
            /\ \A j \in DOMAIN vtask :
                  (vtask[j].st \in {"finished", "collected"} /\ ~vtask[j].valid)
                     => Count(files[PrimaryFile], vtask[j].ip) >= 1)

\* C10 witness: verification is over, one sampled address confirmed and one
\* not, and both outputs are saved
C10_Witness ==
    /\ mainPc = "done"
    /\ VerifiedFile \in DOMAIN files
    /\ Len(files[VerifiedFile]) >= 1
    /\ Len(files[VerifiedFile]) < Len(files[PrimaryFile])
    /\ files[PrimaryFile] = available_ips

\* every future of verify_redirects has been taken by the as_completed loop
AllCollected ==
    /\ mainPc = "verifying"
    /\ \A j \in DOMAIN vtask : vtask[j].st = "collected"

\* the number of sampled addresses whose re-probe failed
FailedReprobes == Cardinality({j \in DOMAIN vtask : ~vtask[j].valid})

\* C11 (as claimed): when the verification pass has processed its sample of n
\* addresses of which k re-probes failed, n outcomes were processed, exactly
\* n - k addresses are confirmed, every confirmed address belongs to the
\* sample, and no address is confirmed twice
C11_OneOutcomePerSample ==
    AllCollected =>
        /\ Len(vtask) = Len(Sample(available_ips))
        /\ Len(verified_ips) = Len(vtask) - FailedReprobes
        /\ \A q \in 1..Len(verified_ips) :
              \E j \in DOMAIN vtask : Sample(available_ips)[j] = verified_ips[q]
        /\ \A q \in 1..Len(verified_ips) : Count(verified_ips, verified_ips[q]) = 1

\* C12 (as claimed): the confirmed list saved by main is in numeric order of
\* its addresses, whatever order the workers completed in
C12_VerifiedSorted ==
    (mainPc = "done" /\ VerifiedFile \in DOMAIN files)
        => NumericOrder(files[VerifiedFile])

\* check_ip and verify_single have both classified the same request outcome
SameOutcomeClassified ==
    /\ mainPc = "classify"
    /\ request.probe = request.verify
    /\ classified.probe # <<>>
    /\ classified.verify # <<>>

\* C13: for every response and every exception, verify_single confirms the
\* address exactly when check_ip classifies the same outcome as "available"
C13_SameRule ==
    SameOutcomeClassified =>
        (classified.verify = <<TRUE>> <=> classified.probe = <<"available">>)

\* C13 witness: a 302 whose Location is not the target url, which both
\* functions have turned down
C13_Witness ==
    /\ SameOutcomeClassified
    /\ request.probe.exc = "none"
    /\ request.probe.status = 302
    /\ "Location" \in DOMAIN request.probe.headers
    /\ request.probe.headers["Location"] # TargetUrl
    /\ classified.verify = <<FALSE>>
    /\ classified.probe = <<"unreachable">>

\* the number of final reports in a log
Finals(log) == Cardinality({q \in 1..Len(log) : log[q].final})

\* C14: while the loop runs no final report exists; the step in which
\* scan_network returns appends exactly one report, the final one, however
\* long ago the previous report was, and it shows completed = total = the
\* number of addresses; after it the log holds one final report, in last
\* place, and no report is ever added to it.
C14_OneFinalReport ==
    /\ [][(mainPc = "scanning" /\ mainPc' = "scanned")
            => /\ Len(reports') = Len(reports) + 1
               /\ SubSeq(reports', 1, Len(reports)) = reports
               /\ reports'[Len(reports')].final
               /\ reports'[Len(reports')].completed = Len(all_ips)
               /\ reports'[Len(reports')].total = Len(all_ips)
               /\ \A k \in Tasks : probe[k] = "consumed"]_vars
    /\ [][mainPc = "scanned" => reports' \in {reports, <<>>}]_vars
    /\ [](mainPc = "scanning" => Finals(reports) = 0)
    /\ [](mainPc = "scanned" => /\ Finals(reports) = 1
                                /\ reports[Len(reports)].final)

\* C14 witness: the scan has returned; a periodic report was printed, and
\* the final report came less than a report interval after it
C14_Witness ==
    /\ mainPc = "scanned"
    /\ Len(reports) >= 2
    /\ reports[Len(reports)].final
    /\ reports[Len(reports)].since < ReportInterval
    /\ reports[Len(reports)].completed = reports[Len(reports)].total

\* every fraction a report was computed from has a nonzero divisor and is not
\* negative
ReportArithmeticSound(r) ==
    \A f \in {r.recent_speed, r.avg_speed, r.eta} : f.den > 0 /\ f.num >= 0

\* C15 (as claimed): in every report the ETA is omitted when the average
\* speed is 0 and is shown, finite and strictly positive, whenever the
\* average speed is greater than 0; nothing is divided by zero and no value
\* is negative
C15_EtaWheneverSpeed ==
    \A q \in 1..Len(reports) :
        LET r == reports[q]
        IN  /\ ReportArithmeticSound(r)
            /\ ~Positive(r.avg_speed) => ~r.eta_shown
            /\ Positive(r.avg_speed) => (r.eta_shown /\ Positive(r.eta))

\* C15 (amended): in every report the ETA is omitted when the average speed
\* is 0 and also when no address remains; it is shown, finite and strictly
\* positive, exactly when the average speed is greater than 0 and an address
\* remains, and it is then remaining / max(average speed, 1); nothing is
\* divided by zero and no value is negative
C15_EtaWhenSpeedAndRemaining ==
    \A q \in 1..Len(reports) :
        LET r == reports[q]
            remaining == r.total - r.completed
            floor == AtLeastOne(r.avg_speed)
        IN  /\ ReportArithmeticSound(r)
            /\ remaining >= 0
            /\ (~Positive(r.avg_speed) \/ remaining = 0) => ~r.eta_shown
            /\ (Positive(r.avg_speed) /\ remaining > 0)
                  => /\ r.eta_shown
                     /\ Positive(r.eta)
                     /\ r.eta.num * floor.num = remaining * floor.den * r.eta.den

\* C15 witness: a report printed while an address remained and the average
\* speed was positive, showing a positive ETA
C15_Witness ==
    \E q \in 1..Len(reports) :
        /\ Positive(reports[q].avg_speed)
        /\ reports[q].completed < reports[q].total
        /\ reports[q].eta_shown
        /\ Positive(reports[q].eta)

\* the well-formed ranges of the input, in input order
WellFormed(rs) == SelectSeq(rs, ValidNetwork)

RECURSIVE Expanded(_, _)
\* the hosts of the first n ranges of rs, range after range
Expanded(rs, n) ==
    IF n = 0 THEN <<>>
    ELSE Expanded(rs, n - 1)
         \o [k \in 1..Len(Hosts(rs[n])) |-> IpStr(Hosts(rs[n])[k])]

\* the addresses of every well-formed range of the input, in input order
ExpectedIps == Expanded(WellFormed(ranges), Len(WellFormed(ranges)))

Consumed == {k \in Tasks : probe[k] = "consumed"}

\* the consumed tasks whose verdict was "available" for address ip
FoldedAvailable(ip) ==
    {k \in Consumed : verdict[k] = "available" /\ all_ips[k] = ip}

\* C17: the reporter never sees a torn scan state.  During the scan the
\* counter and the list describe the same consumed verdicts (the counter is
\* their number, the list holds the address of each available one), the
\* reporter's completed and snapshot equal them, and available never exceeds
\* completed, in the state and in every report; one pass of the loop moves
\* the reporter's pair by one verdict at once, and a report printed in that
\* pass shows the pair of that pass.
C17_NoTornState ==
    /\ [](InScan =>
            /\ completed_count = Cardinality(Consumed)
            /\ Len(available_ips) = Cardinality({k \in Consumed : verdict[k] = "available"})
            /\ \A q \in 1..Len(available_ips) :
                  Count(available_ips, available_ips[q])
                     = Cardinality(FoldedAvailable(available_ips[q]))
            /\ reporter.completed = completed_count
            /\ reporter.available_ips = available_ips
            /\ Len(reporter.available_ips) <= reporter.completed
            /\ \A q \in 1..Len(reports) :
                  /\ reports[q].available <= reports[q].completed
                  /\ reports[q].unreachable = reports[q].completed - reports[q].available)
    /\ [][(InScan /\ InScan' /\ Len(doneQ') < Len(doneQ))
            => /\ reporter'.completed = reporter.completed + 1
               /\ reporter'.available_ips
                     = Folded(reporter.available_ips, all_ips[Head(doneQ)],
                              verdict[Head(doneQ)])]_vars
    /\ [][(InScan /\ InScan' /\ Len(reports') > Len(reports))
            => /\ reports'[Len(reports')].completed = completed_count'
               /\ reports'[Len(reports')].available = Len(available_ips')]_vars

\* C17 witness: the scan is running, a report printed after two verdicts
\* shows one available and one unreachable address, and a probe is still
\* to be consumed
C17_Witness ==
    /\ mainPc = "scanning"
    /\ Consumed # Tasks
    /\ \E q \in 1..Len(reports) :
          /\ reports[q].completed = 2
          /\ reports[q].available = 1
    /\ reporter.completed = completed_count
    /\ Len(reporter.available_ips) < reporter.completed

Periodic(log) == {q \in 1..Len(log) : ~log[q].final}

\* C19 (as claimed): periodic reports keep a wall-clock cadence whatever the
\* throughput: two periodic reports are at least a report interval apart, and
\* a report is printed as soon as a report interval has passed since the
\* last one, so no periodic report comes a clock step or more after it was
\* due
C19_WallClockCadence ==
    /\ \A p, q \in Periodic(reports) :
          p < q => reports[q].at - reports[p].at >= ReportInterval
    /\ \A q \in Periodic(reports) :
          /\ reports[q].since >= ReportInterval
          /\ reports[q].since < ReportInterval + TickSeconds

\* the periodic reports of a log that came before place q
PeriodicBefore(log, q) == {p \in Periodic(log) : p < q}

\* the place of the last periodic report before place q; 0 if there is none
LastPeriodicBefore(log, q) ==
    IF PeriodicBefore(log, q) = {} THEN 0
    ELSE CHOOSE p \in PeriodicBefore(log, q) :
            \A o \in PeriodicBefore(log, q) : o <= p

\* the time of, and the count shown by, the report at place p; the start of
\* the scan and 0 for place 0
ReportTime(log, p) == IF p = 0 THEN reporter.start_time ELSE log[p].at
ReportCount(log, p) == IF p = 0 THEN 0 ELSE log[p].completed

\* C20: every report computes the recent speed over the span since the
\* previous periodic report.  last_report_time and last_completed are those
\* of the last periodic report (the start of the scan and 0 before the
\* first), they change in the step of a periodic report, both at once, and in
\* no other step of the scan; so in every report recent_completed is the
\* number of verdicts consumed since that report, never negative, the
\* interval is the time since it, and the speed is their quotient, or 0 when
\* the interval is 0.
C20_RecentSpeedWindow ==
    /\ [](InScan =>
            /\ reporter.last_report_time
                  = ReportTime(reports, LastPeriodicBefore(reports, Len(reports) + 1))
            /\ reporter.last_completed
                  = ReportCount(reports, LastPeriodicBefore(reports, Len(reports) + 1))
            /\ \A q \in 1..Len(reports) :
                  LET r == reports[q]
                      p == LastPeriodicBefore(reports, q)
                  IN  /\ r.recent_completed >= 0
                      /\ r.recent_completed = r.completed - ReportCount(reports, p)
                      /\ r.since = r.at - ReportTime(reports, p)
                      /\ r.since >= 0
                      /\ r.recent_speed.den > 0
                      /\ r.since = 0 => r.recent_speed = Frac(0, 1)
                      /\ r.since > 0 =>
                            r.recent_speed.num * Minutes(r.since).num
                               = r.recent_completed * Minutes(r.since).den
                                    * r.recent_speed.den)
    /\ [][(InScan /\ InScan')
            => LET printed == Periodic(reports') # Periodic(reports)
               IN  /\ printed <=> reporter'.last_report_time # reporter.last_report_time
                   /\ printed <=> reporter'.last_completed # reporter.last_completed
                   /\ printed =>
                         /\ reporter'.last_report_time = reports'[Len(reports')].at
                         /\ reporter'.last_completed = reports'[Len(reports')].completed]_vars

\* C20 witness: a second periodic report, whose window holds fewer verdicts
\* than were consumed in all
C20_Witness ==
    \E p, q \in Periodic(reports) :
        /\ p < q
        /\ reports[p].completed >= 1
        /\ reports[q].recent_completed >= 1
        /\ reports[q].recent_completed < reports[q].completed

\* C21: verdicts are folded in completion order.  During the scan
\* available_ips holds, place by place, the addresses of the first available
\* probes in the order their probes completed; when scan_network returns it
\* holds the address of every available probe, in that order, whatever the
\* order of the address list.
C21_CompletionOrder ==
    /\ InScan =>
          /\ Len(available_ips) <= Len(availOrder)
          /\ \A q \in 1..Len(available_ips) :
                available_ips[q] = all_ips[availOrder[q]]
    /\ mainPc = "scanned" =>
          /\ Len(available_ips) = Len(availOrder)
          /\ \A k \in Tasks :
                verdict[k] = "available" => \E q \in 1..Len(availOrder) : availOrder[q] = k

\* C21 witness: scan_network returns a list in which a later address of the
\* address list comes before an earlier one, its probe having completed first
C21_Witness ==
    /\ mainPc = "scanned"
    /\ Len(availOrder) = 2
    /\ availOrder[1] > availOrder[2]
    /\ all_ips[availOrder[1]] # all_ips[availOrder[2]]
    /\ available_ips = <<all_ips[availOrder[1]], all_ips[availOrder[2]]>>

\* C22: the verification pass is bounded.  Its futures are the first
\* min(10, number of available addresses) entries of main's sorted list, in
\* that order, and no other address is re-probed; never more than
\* max_workers of them run at once; and with an empty list main ends
\* without calling verify_redirects and without writing the second file.
C22_VerificationBounded ==
    /\ [](mainPc = "verifying" =>
            /\ Len(vtask) = Min(VerifySample, Len(available_ips))
            /\ \A j \in DOMAIN vtask : vtask[j].ip = available_ips[j]
            /\ \A q \in 1..Len(verified_ips) :
                  \E j \in 1..Min(VerifySample, Len(available_ips)) :
                      verified_ips[q] = available_ips[j])
    /\ [](Running <= MaxWorkers)
    /\ [][(mainPc = "saved" /\ available_ips = <<>>)
            => /\ mainPc' = "done"
               /\ vtask' = <<>>
               /\ verified_ips' = <<>>
               /\ files' = files]_vars
    /\ []((mainPc = "done" /\ available_ips = <<>>) => VerifiedFile \notin DOMAIN files)

\* C22 witness: eleven addresses are available, ten have been sampled, and
\* all ten re-probes are running at once
C22_Witness ==
    /\ mainPc = "verifying"
    /\ Len(available_ips) > VerifySample
    /\ Len(vtask) = VerifySample
    /\ Running = MaxWorkers

\* C23 (as claimed): no progress report raises.  In every reporter state of
\* a scan a report can be printed without dividing by zero, every report
\* printed was computed without dividing by zero, scan_network never ends by
\* an exception, and given an empty address list it prints the final report
\* and returns an empty result.
C23_ReportsNeverRaise ==
    /\ InScan => ~ReportRaises(reporter)
    /\ \A q \in 1..Len(reports) :
          ReportArithmeticSound(reports[q]) /\ reports[q].total > 0
    /\ mainPc # "error"
    /\ (mainPc = "scanned" /\ all_ips = <<>>)
          => /\ available_ips = <<>>
             /\ Len(reports) = 1
             /\ reports[1].final

====
